---- MODULE Spec2Model ----
(***************************************************************************)
(* The streaming translator of the gateway: the coordinator loop of        *)
(* processStreamingResponse, the StreamingPipeline, the StreamState        *)
(* handler with its ContentBlockManager, the SSE writer and the            *)
(* conversation store, for one conversation served turn after turn.        *)
(*                                                                         *)
(* The repository holds two StreamState sources that differ only in the    *)
(* web search arms: utils/stream-state.ts opens a tool_use block named     *)
(* web_search, utils/streaming/stream-state.ts opens a                     *)
(* web_search_tool_result block.  webSearchAsTool selects the first.       *)
(*                                                                         *)
(* frames is the sequence of calls to stream.writeSSE, in call order; each *)
(* frame records whether the transport was open when it was handed over.   *)
(* A handler runs as one step: the ping timer is a macrotask and the       *)
(* frames one handler writes keep their order.  Upstream item ids are the  *)
(* upstream's own (fc_...), never of the form text_N.                      *)
(***************************************************************************)
EXTENDS Integers, Sequences, FiniteSets, TLC

\* ------------------------------------------------------------------ bounds
MaxEvents == 3
MaxPings == 1
MaxTurns == 2
NumItems == 2
MaxBlocks == 3
MaxRegs == 2
MaxSweeps == 8
MaxOutputs == 2
MaxDepth == 2

ItemName == <<"fc_1", "fc_2", "fc_3">>
CallName == <<"call_1", "call_2", "call_3">>
ItemIds == {ItemName[i] : i \in 1..NumItems}
CallIdOf(item) == CallName[CHOOSE i \in 1..NumItems : ItemName[i] = item]
StreamedItems == {"fc_1", "fc_2"}
RespIds == {"resp_1"}
MsgIds == {"msg_1"}

VARIABLES
  webSearchAsTool,  \* which StreamState source serves the session
  phase,            \* position of processStreamingResponse
  turn,             \* number of turns begun
  state,            \* StreamState: its fields and its ContentBlockManager
  frames,           \* calls to stream.writeSSE of the current session
  completed,        \* StreamingPipeline.completed
  pingTimer,        \* StreamingPipeline.pingTimer is set
  closed,           \* stream.closed
  aborted,          \* config.signal.aborted
  nEvents,          \* upstream events yielded in this session
  totalEvents,      \* upstream events yielded in all sessions so far
  nPings,           \* timer pings so far
  lastResponseId,   \* ConversationContext.lastResponseId ("" = undefined)
  storeMapping,     \* ConversationContext.callIdMapping
  managerMap,       \* UnifiedIdManager.mappings of the conversation
  respBefore,       \* lastResponseId read when the turn began
  finalStatus,      \* status and incomplete reason of the response.completed
                    \* this session processed, <<>> before
  droppedEvents,    \* events handed to this session after its latch was set
  announcedId,      \* response.id of the response.created of this session
  httpStatus,       \* status of the Response the handler returned, 0 = none
  activePipelines,  \* StreamingPipelineFactory.activePipelines (request ids)
  upstreamText,     \* the output text the upstream has streamed in this turn
  mgr,              \* a UnifiedIdManager: mappings and reverseMapping
  claudeReq,        \* the messages of the request handed to claudeToResponses
  openaiReq,        \* the upstream request claudeToResponses returned
  streamed,         \* the bindings <<call_id, item id>> streamed turns gave mgr
  now,              \* Date.now() of the store's process, in minutes
  conversations,    \* ConversationStore.conversations
  requests,         \* the requests of the conversation, in flight or not
  upResponse,       \* a complete upstream response handed to the translator
  claudeMsg,        \* what convertOpenAIResponseToClaude made of it
  schema,           \* a tool's input_schema
  normalized,       \* normalizeJSONSchemaForOpenAI(schema)
  renormalized      \* normalizeJSONSchemaForOpenAI(normalized)

\* the variables of the converter and of the store, which a streaming
\* session leaves alone, and the session's own
Converter == <<mgr, claudeReq, openaiReq, streamed>>
Clocked == <<now, conversations, requests>>
Pure == <<upResponse, claudeMsg, schema, normalized, renormalized>>
Fixed == <<webSearchAsTool, Converter, Clocked, Pure>>
Session == <<webSearchAsTool, phase, turn, state, frames, completed,
             pingTimer, closed, aborted, nEvents, totalEvents, nPings,
             lastResponseId, storeMapping, managerMap, respBefore,
             finalStatus, droppedEvents, announcedId, httpStatus,
             activePipelines, upstreamText>>

vars == <<Session, Converter, Clocked, Pure>>

EmptyMap == [k \in {} |-> ""]
MapSet(m, k, v) == [x \in DOMAIN m \cup {k} |-> IF x = k THEN v ELSE m[x]]

\* ------------------------------------------------------------ upstream events
Ev(type) ==
  [type |-> type, item |-> "", itemType |-> "", call |-> "", rid |-> "",
   status |-> "", reason |-> "", part |-> "", delta |-> ""]

ErrorTypes == {"response.failed", "response.incomplete", "error"}

\* the argument fragments an upstream sends, and the data of a searching frame
Fragments == {"a", "b"}
searchingData == "s"
\* the text of an output_text.delta
textDelta == "t"

Events ==
  {[Ev("response.created") EXCEPT !.rid = r] : r \in RespIds}
  \cup {[Ev("response.output_text.delta") EXCEPT !.delta = textDelta],
        Ev("response.output_text.done"),
        Ev("response.in_progress"), Ev("response.queued")}
  \cup {[Ev("response.output_item.added") EXCEPT
           !.item = i, !.itemType = "function_call", !.call = CallIdOf(i)] :
        i \in ItemIds}
  \cup {[Ev("response.output_item.added") EXCEPT
           !.item = m, !.itemType = "message"] : m \in MsgIds}
  \cup {[Ev("response.output_item.done") EXCEPT
           !.item = i, !.itemType = "function_call", !.call = CallIdOf(i)] :
        i \in ItemIds}
  \cup {[Ev("response.function_call_arguments.delta") EXCEPT
           !.item = i, !.delta = d] : i \in ItemIds, d \in Fragments}
  \cup {[Ev(t) EXCEPT !.item = i] :
        t \in {"response.function_call_arguments.done",
               "response.web_search_call.in_progress",
               "response.web_search_call.searching",
               "response.web_search_call.completed"},
        i \in ItemIds}
  \cup {[Ev(t) EXCEPT !.item = m, !.part = p] :
        t \in {"response.content_part.added", "response.content_part.done"},
        m \in MsgIds, p \in {"output_text", "refusal"}}
  \cup {[Ev("response.completed") EXCEPT !.status = "completed"],
        [Ev("response.completed") EXCEPT
           !.status = "incomplete", !.reason = "max_output_tokens"],
        [Ev("response.completed") EXCEPT
           !.status = "incomplete", !.reason = "content_filter"]}
  \cup {Ev(t) : t \in ErrorTypes}

\* ------------------------------------------------------------------ SSE writer
Frame(event, type, index, info, id) ==
  [event |-> event, type |-> type, index |-> index, info |-> info, id |-> id,
   data |-> "", open |-> ~closed]

\* SSEWriter.write: the event name is the payload's type
write(out, type, index, info, id) ==
  Append(out, Frame(type, type, index, info, id))

messageStart(out) == write(out, "message_start", -1, "", "")
textStart(out, index) == write(out, "content_block_start", index, "text", "")
deltaText(out, index, text) ==
  Append(out, [Frame("content_block_delta", "content_block_delta", index,
                     "text_delta", "") EXCEPT !.data = text])
textStop(out, index) == write(out, "content_block_stop", index, "", "")
toolStart(out, index, id) ==
  write(out, "content_block_start", index, "tool_use", id)
\* mutant: the fragment is not carried
toolArgsDelta_empty(out, index, partialJson) ==
  write(out, "content_block_delta", index, "input_json_delta", "")

toolArgsDelta(out, index, partialJson) ==
  Append(out, [Frame("content_block_delta", "content_block_delta", index,
                     "input_json_delta", "") EXCEPT !.data = partialJson])
toolStop(out, index) == write(out, "content_block_stop", index, "", "")
messageDelta(out, stopReason) == write(out, "message_delta", -1, stopReason, "")
messageStop(out) == write(out, "message_stop", -1, "", "")
\* ping and error build the SSE message themselves, without an event name
ping(out) == Append(out, Frame("", "ping", -1, "", ""))
error(out, type) == Append(out, Frame("", "error", -1, type, ""))
\* the writer operations of the web_search_tool_result block
webSearchResultStart(out, index, id) ==
  write(out, "content_block_start", index, "web_search_tool_result", id)
webSearchResultDelta(out, index, partialJson) ==
  Append(out, [Frame("content_block_delta", "content_block_delta", index,
                     "input_json_delta", "") EXCEPT !.data = partialJson])
webSearchResultStop(out, index) == write(out, "content_block_stop", index, "", "")

\* -------------------------------------------------------- ContentBlockManager
\* s.blocks: the blocks array; s.metadata: the metadata Map, in insertion order
TextId(index) == "text_" \o ToString(index)

MetaPos(s, id) ==
  IF \E p \in 1..Len(s.metadata) : s.metadata[p].id = id
  THEN CHOOSE p \in 1..Len(s.metadata) : s.metadata[p].id = id
  ELSE 0

MetaPut(md, meta) ==
  IF \E p \in 1..Len(md) : md[p].id = meta.id
  THEN [p \in 1..Len(md) |-> IF md[p].id = meta.id THEN meta ELSE md[p]]
  ELSE Append(md, meta)

NewMeta(id, index, call_id) ==
  [id |-> id, index |-> index, started |-> FALSE, completed |-> FALSE,
   argsBuffer |-> "", call_id |-> call_id]

BlockOf(s, meta) == s.blocks[meta.index + 1]

\* mutant: the index of a text block counts the text blocks only
addTextBlock_textCounter(s) ==
  LET index == Len(SelectSeq(s.blocks, LAMBDA b : b.type = "text"))
      meta == NewMeta(TextId(index), index, "")
  IN [s |-> [s EXCEPT !.blocks = Append(@, [type |-> "text", id |-> ""]),
                      !.metadata = MetaPut(@, meta)],
      meta |-> meta]

\* each add returns the manager after the call and the metadata handed back
addTextBlock(s) ==
  LET index == Len(s.blocks)
      meta == NewMeta(TextId(index), index, "")
  IN [s |-> [s EXCEPT !.blocks = Append(@, [type |-> "text", id |-> ""]),
                      !.metadata = MetaPut(@, meta)],
      meta |-> meta]

\* mutant: a block is added although the id has one
addBlockOfType_always(s, type, id, call_id) ==
  LET index == Len(s.blocks)
      meta == NewMeta(id, index, call_id)
  IN [s |-> [s EXCEPT !.blocks = Append(@, [type |-> type, id |-> id]),
                      !.metadata = MetaPut(@, meta)],
      meta |-> meta]

addBlockOfType(s, type, id, call_id) ==
  IF MetaPos(s, id) # 0
  THEN [s |-> s, meta |-> s.metadata[MetaPos(s, id)]]
  ELSE LET index == Len(s.blocks)
           meta == NewMeta(id, index, call_id)
       IN [s |-> [s EXCEPT !.blocks = Append(@, [type |-> type, id |-> id]),
                           !.metadata = MetaPut(@, meta)],
           meta |-> meta]

addToolBlock(s, toolId, call_id) == addBlockOfType(s, "tool_use", toolId, call_id)

addWebSearchToolResultBlock(s, id) ==
  addBlockOfType(s, "web_search_tool_result", id, "")

\* getBlock and its typed variants return a position in metadata, 0 = undefined
getBlock(s, id) == MetaPos(s, id)

getBlockOfType(s, id, type) ==
  LET p == getBlock(s, id)
  IN IF p # 0 /\ BlockOf(s, s.metadata[p]).type = type THEN p ELSE 0

getToolBlock(s, id) == getBlockOfType(s, id, "tool_use")

getWebSearchToolResultBlock(s, id) ==
  getBlockOfType(s, id, "web_search_tool_result")

getCurrentTextBlock(s) ==
  LET open == {p \in 1..Len(s.metadata) :
                 /\ ~s.metadata[p].completed
                 /\ BlockOf(s, s.metadata[p]).type = "text"}
  IN IF open = {} THEN 0 ELSE CHOOSE p \in open : \A q \in open : q <= p

markStarted(s, id) ==
  IF MetaPos(s, id) = 0 THEN s
  ELSE [s EXCEPT !.metadata[MetaPos(s, id)].started = TRUE]

markCompleted(s, id) ==
  IF MetaPos(s, id) = 0 THEN s
  ELSE [s EXCEPT !.metadata[MetaPos(s, id)].completed = TRUE]

hasActiveTools(s) ==
  \E p \in 1..Len(s.metadata) :
    /\ ~s.metadata[p].completed
    /\ BlockOf(s, s.metadata[p]).type = "tool_use"

getUncompletedBlocks(s) == SelectSeq(s.metadata, LAMBDA m : ~m.completed)

\* ------------------------------------------------------------------ StreamState
InitState ==
  [blocks |-> <<>>, metadata |-> <<>>, currentTextBlockId |-> "",
   responseId |-> "", callIdMapping |-> EmptyMap, streamCompleted |-> FALSE,
   messageStarted |-> FALSE]

Res(s, out) == [s |-> s, out |-> out]

\* mutant: the greeting also opens text block 0
greeting_withTextStart(s, out) ==
  IF ~s.messageStarted
  THEN Res([s EXCEPT !.messageStarted = TRUE],
           textStart(ping(messageStart(out)), 0))
  ELSE Res(s, out)

greeting(s, out) ==
  IF ~s.messageStarted
  THEN Res([s EXCEPT !.messageStarted = TRUE], ping(messageStart(out)))
  ELSE Res(s, out)

\* currentTextBlockId ? getBlock(currentTextBlockId) : getCurrentTextBlock()
resolveTextBlock(s) ==
  IF s.currentTextBlockId # "" THEN getBlock(s, s.currentTextBlockId)
  ELSE getCurrentTextBlock(s)

onResponseCreated(s, out, ev) ==
  LET s1 == IF ev.rid # "" THEN [s EXCEPT !.responseId = ev.rid] ELSE s
      a == addTextBlock(s1)
      s2 == [a.s EXCEPT !.currentTextBlockId = a.meta.id]
  IN Res(markStarted(s2, a.meta.id), textStart(out, a.meta.index))

onOutputTextDelta(s, out, ev) ==
  LET p == resolveTextBlock(s)
  IN IF p # 0 THEN Res(s, deltaText(out, s.metadata[p].index, ev.delta))
     ELSE Res(s, out)

onOutputTextDone(s, out, ev) ==
  LET p == resolveTextBlock(s)
      r == IF p # 0
           THEN Res(markCompleted(s, s.metadata[p].id),
                    textStop(out, s.metadata[p].index))
           ELSE Res(s, out)
  IN Res([r.s EXCEPT !.currentTextBlockId = ""], r.out)

onOutputItemAdded(s, out, ev) ==
  IF ev.itemType = "function_call"
  THEN LET a == addToolBlock(s, ev.item, ev.call)
           s1 == IF ev.call # ""
                 THEN [a.s EXCEPT !.callIdMapping = MapSet(@, ev.call, ev.item)]
                 ELSE a.s
       IN IF ~a.meta.started
          THEN Res(markStarted(s1, a.meta.id),
                   toolStart(out, a.meta.index, ev.item))
          ELSE Res(s1, out)
  ELSE Res(s, out)

\* mutant: the fragment is written to a completed block as well
onFunctionCallArgumentsDelta_late(s, out, ev) ==
  LET p == getToolBlock(s, ev.item)
  IN IF p # 0
     THEN Res([s EXCEPT !.metadata[p].argsBuffer = @ \o ev.delta],
              toolArgsDelta(out, s.metadata[p].index, ev.delta))
     ELSE Res(s, out)

onFunctionCallArgumentsDelta(s, out, ev) ==
  LET p == getToolBlock(s, ev.item)
  IN IF p # 0 /\ ~s.metadata[p].completed
     THEN Res([s EXCEPT !.metadata[p].argsBuffer = @ \o ev.delta],
              toolArgsDelta(out, s.metadata[p].index, ev.delta))
     ELSE Res(s, out)

onOutputItemDone(s, out, ev) ==
  LET p == getToolBlock(s, ev.item)
  IN IF ev.itemType = "function_call" /\ p # 0 /\ ~s.metadata[p].completed
     THEN Res(markCompleted(s, s.metadata[p].id),
              toolStop(out, s.metadata[p].index))
     ELSE Res(s, out)

onContentPartAdded(s, out, ev) ==
  LET s1 == IF ev.item # "" THEN [s EXCEPT !.responseId = ev.item] ELSE s
      a == addTextBlock(s1)
      s2 == [a.s EXCEPT !.currentTextBlockId = a.meta.id]
      out1 == textStart(out, a.meta.index)
  IN Res(markStarted(s2, a.meta.id),
         IF ev.part = "output_text"
         THEN deltaText(out1, a.meta.index, ev.delta) ELSE out1)

onContentPartDone(s, out, ev) ==
  LET p == resolveTextBlock(s)
      r == IF p # 0
           THEN LET index == s.metadata[p].index
                    out1 == IF ev.part = "output_text"
                            THEN deltaText(out, index, ev.delta) ELSE out
                IN Res(markCompleted(s, s.metadata[p].id), textStop(out1, index))
           ELSE Res(s, out)
  IN Res([r.s EXCEPT !.currentTextBlockId = ""], r.out)

\* the loop of response.completed over getUncompletedBlocks()
RECURSIVE stopUncompleted(_, _, _)
stopUncompleted(s, todo, out) ==
  IF todo = <<>> THEN Res(s, out)
  ELSE LET m == Head(todo)
           type == BlockOf(s, m).type
           out1 == IF type = "text" THEN textStop(out, m.index)
                   ELSE IF type = "tool_use" THEN toolStop(out, m.index)
                   ELSE out
       IN stopUncompleted(markCompleted(s, m.id), Tail(todo), out1)

\* mutant: the incomplete reason is compared with the downstream name
stopReason_wrongDetail(status, detail, hasActiveTool) ==
  IF status = "incomplete" /\ detail = "max_tokens" THEN "max_tokens"
  ELSE IF hasActiveTool THEN "tool_use"
  ELSE "end_turn"

stopReason(status, detail, hasActiveTool) ==
  IF status = "incomplete" /\ detail = "max_output_tokens" THEN "max_tokens"
  ELSE IF hasActiveTool THEN "tool_use"
  ELSE "end_turn"

\* mutant: message_stop is left out
onResponseCompleted_noStop(s, out, ev) ==
  LET r == stopUncompleted(s, getUncompletedBlocks(s), out)
      reason == stopReason(ev.status, ev.reason, hasActiveTools(r.s))
  IN Res([r.s EXCEPT !.streamCompleted = TRUE], messageDelta(r.out, reason))

\* mutant: message_delta is written before the open blocks are stopped
onResponseCompleted_deltaFirst(s, out, ev) ==
  LET reason == stopReason(ev.status, ev.reason, FALSE)
      r == stopUncompleted(s, getUncompletedBlocks(s), messageDelta(out, reason))
  IN Res([r.s EXCEPT !.streamCompleted = TRUE], messageStop(r.out))

onResponseCompleted(s, out, ev) ==
  LET r == stopUncompleted(s, getUncompletedBlocks(s), out)
      reason == stopReason(ev.status, ev.reason, hasActiveTools(r.s))
  IN Res([r.s EXCEPT !.streamCompleted = TRUE],
         messageStop(messageDelta(r.out, reason)))

onStreamError(s, out, ev) == Res(s, error(out, ev.type))

onInProgress(s, out, ev) == Res(s, ping(out))

\* utils/stream-state.ts: web search as a tool_use block named web_search
onWebSearchInProgressTool(s, out, ev) ==
  LET a == addToolBlock(s, ev.item, "")
  IN IF ~a.meta.started
     THEN Res(markStarted(a.s, a.meta.id), toolStart(out, a.meta.index, ev.item))
     ELSE Res(a.s, out)

\* utils/streaming/stream-state.ts: web search as a web_search_tool_result block
onWebSearchInProgressResult(s, out, ev) ==
  LET a == addWebSearchToolResultBlock(s, ev.item)
  IN IF ~a.meta.started
     THEN Res(markStarted(a.s, a.meta.id),
              webSearchResultStart(out, a.meta.index, ev.item))
     ELSE Res(a.s, out)

onWebSearchSearching(s, out, ev) ==
  LET p == IF webSearchAsTool THEN getToolBlock(s, ev.item)
           ELSE getWebSearchToolResultBlock(s, ev.item)
  IN IF p # 0 /\ ~s.metadata[p].completed
     THEN IF webSearchAsTool
          THEN Res([s EXCEPT !.metadata[p].argsBuffer = @ \o searchingData],
                   toolArgsDelta(out, s.metadata[p].index, searchingData))
          ELSE Res(s, webSearchResultDelta(out, s.metadata[p].index,
                                           searchingData))
     ELSE Res(s, out)

onWebSearchCompleted(s, out, ev) ==
  LET p == IF webSearchAsTool THEN getToolBlock(s, ev.item)
           ELSE getWebSearchToolResultBlock(s, ev.item)
  IN IF p # 0 /\ ~s.metadata[p].completed
     THEN Res(markCompleted(s, s.metadata[p].id),
              IF webSearchAsTool
              THEN toolStop(out, s.metadata[p].index)
              ELSE webSearchResultStop(out, s.metadata[p].index))
     ELSE Res(s, out)

\* the switch of handleEvent
dispatch(s, out, ev) ==
  CASE ev.type = "response.created" -> onResponseCreated(s, out, ev)
    [] ev.type = "response.output_text.delta" -> onOutputTextDelta(s, out, ev)
    [] ev.type = "response.output_text.done" -> onOutputTextDone(s, out, ev)
    [] ev.type = "response.output_item.added" -> onOutputItemAdded(s, out, ev)
    [] ev.type = "response.function_call_arguments.delta" ->
         onFunctionCallArgumentsDelta(s, out, ev)
    [] ev.type = "response.output_item.done" -> onOutputItemDone(s, out, ev)
    [] ev.type = "response.content_part.added" -> onContentPartAdded(s, out, ev)
    [] ev.type = "response.content_part.done" -> onContentPartDone(s, out, ev)
    [] ev.type = "response.completed" -> onResponseCompleted(s, out, ev)
    [] ev.type \in ErrorTypes -> onStreamError(s, out, ev)
    [] ev.type = "response.in_progress" -> onInProgress(s, out, ev)
    [] ev.type = "response.web_search_call.in_progress" ->
         IF webSearchAsTool THEN onWebSearchInProgressTool(s, out, ev)
         ELSE onWebSearchInProgressResult(s, out, ev)
    [] ev.type = "response.web_search_call.searching" ->
         onWebSearchSearching(s, out, ev)
    [] ev.type = "response.web_search_call.completed" ->
         onWebSearchCompleted(s, out, ev)
    [] OTHER -> Res(s, out)

handleEvent(s, out, ev) ==
  IF s.streamCompleted THEN Res(s, out) ELSE dispatch(s, out, ev)

\* ------------------------------------------------------------ StreamingPipeline
\* mutant: neither latch is consulted
processEvent_noLatch(s, out, done, ev) ==
  LET r == dispatch(s, out, ev)
  IN [s |-> r.s, out |-> r.out,
      completed |-> (done \/ ev.type = "response.completed")]

\* processEvent: the result carries the pipeline's completed flag as well
processEvent(s, out, done, ev) ==
  IF done THEN [s |-> s, out |-> out, completed |-> TRUE]
  ELSE LET r == handleEvent(s, out, ev)
       IN [s |-> r.s, out |-> r.out,
           completed |-> (ev.type = "response.completed")]

\* pipeline.start(): greeting, then the ping timer
start(s, out) == greeting(s, out)

\* pipeline.handleError: one error frame of type api_error
handleError(out) == error(out, "api_error")

\* mutant: the interval is left running
stopPingTimer_keeps(timer) == timer

\* stopPingTimer: clearInterval, pingTimer = undefined
stopPingTimer(timer) == FALSE

\* StreamingPipelineFactory.create and release
create(pipelines, requestId) == pipelines \cup {requestId}
release(pipelines, requestId) == pipelines \ {requestId}

\* the handler of /v1/messages: the processor's Response, 499 when process
\* threw and the signal is aborted, else the framework's answer to a throw
respond(threw, signalAborted) ==
  IF ~threw THEN 200
  ELSE IF signalAborted THEN 499
  ELSE 500

\* ------------------------------------------------- ids and conversation store
\* An id is a string: a prefix, an underscore and a body, or a body alone.
\* The ids of the model are the ones MkId builds from these parts.
OPENAI_VALID_PREFIXES == {"fc", "call"}
INVALID_PREFIXES == {"ws", "tool", "tc"}
IdPrefixes == OPENAI_VALID_PREFIXES \cup INVALID_PREFIXES \cup {"toolu", ""}
IdBodies == {ToString(i) : i \in 1..(NumItems + 1)}
              \cup {"g" \o ToString(i) : i \in 1..MaxBlocks}
MkId(prefix, body) == IF prefix = "" THEN body ELSE prefix \o "_" \o body
IdParts(id) ==
  CHOOSE pb \in IdPrefixes \X IdBodies : MkId(pb[1], pb[2]) = id

\* id.startsWith("fc_") or id.startsWith("call_")
isValidOpenAIPrefix(id) == IdParts(id)[1] \in OPENAI_VALID_PREFIXES

\* IdFormat.fixOpenAIPrefix: a valid id as it is; a known invalid prefix is
\* replaced by call_; an id with no underscore gets call_ in front; any other
\* id loses what stands before its first underscore and gets call_
fixOpenAIPrefix(id) ==
  IF isValidOpenAIPrefix(id) THEN id
  ELSE IF IdParts(id)[1] \in INVALID_PREFIXES
       THEN "call_" \o IdParts(id)[2]
  ELSE IF IdParts(id)[1] = "" THEN "call_" \o id
  ELSE "call_" \o IdParts(id)[2]

extractIdWithoutPrefix(id) == IdParts(id)[2]

isSameIdIgnoringPrefix(id1, id2) ==
  extractIdWithoutPrefix(id1) = extractIdWithoutPrefix(id2)

\* mutant: registering forgets the bindings stored before
registerMapping_forgetful(mappings, openaiCallId, claudeToolUseId) ==
  MapSet(EmptyMap, fixOpenAIPrefix(openaiCallId), claudeToolUseId)

\* UnifiedIdManager.registerMapping on mappings: the key is the call id with a
\* valid prefix, and a binding already stored under it is replaced
registerMapping(mappings, openaiCallId, claudeToolUseId) ==
  LET validOpenAIId == IF isValidOpenAIPrefix(openaiCallId) THEN openaiCallId
                       ELSE fixOpenAIPrefix(openaiCallId)
  IN MapSet(mappings, validOpenAIId, claudeToolUseId)

\* the same call on reverseMapping, a Map in insertion order: a sequence of
\* <<claudeToolUseId, openaiCallId>>
registerReverse(reverseMapping, openaiCallId, claudeToolUseId) ==
  LET validOpenAIId == fixOpenAIPrefix(openaiCallId)
      at == {i \in 1..Len(reverseMapping) :
               reverseMapping[i][1] = claudeToolUseId}
  IN IF at = {} THEN Append(reverseMapping, <<claudeToolUseId, validOpenAIId>>)
     ELSE [reverseMapping EXCEPT
             ![CHOOSE i \in at : TRUE] = <<claudeToolUseId, validOpenAIId>>]

\* a UnifiedIdManager: both maps, and the number of call ids it was handed by
\* the message converter
EmptyManager == [mappings |-> EmptyMap, reverseMapping |-> <<>>, generated |-> 0]

register(m, openaiCallId, claudeToolUseId) ==
  [m EXCEPT
     !.mappings = registerMapping(@, openaiCallId, claudeToolUseId),
     !.reverseMapping = registerReverse(@, openaiCallId, claudeToolUseId)]

\* UnifiedIdManager.getOpenAICallId: the direct entry, else the first entry
\* whose tool use id is the same but for its prefix, else "" (undefined)
getOpenAICallId(m, claudeToolUseId) ==
  LET rev == m.reverseMapping
      direct == {i \in 1..Len(rev) : rev[i][1] = claudeToolUseId}
      loose == {i \in 1..Len(rev) :
                  isSameIdIgnoringPrefix(rev[i][1], claudeToolUseId)}
  IN IF direct # {} THEN rev[CHOOSE i \in direct : TRUE][2]
     ELSE IF loose # {}
          THEN rev[CHOOSE i \in loose : \A j \in loose : i <= j][2]
     ELSE ""

RECURSIVE importFromMap(_, _)
importFromMap(mappings, map) ==
  IF DOMAIN map = {} THEN mappings
  ELSE LET k == CHOOSE x \in DOMAIN map : TRUE
       IN importFromMap(registerMapping(mappings, k, map[k]),
                        [x \in DOMAIN map \ {k} |-> map[x]])

\* --------------------------------------------------------- request translator
\* A request is the sequence of its content blocks, message after message;
\* first marks the block that opens a message and role is, on that block, the
\* role of the message.  An input item keeps in src the position of the block
\* it was made from.
Block(type, id, first, role) ==
  [type |-> type, id |-> id, first |-> first, role |-> role]
Item(type, call_id, src) == [type |-> type, call_id |-> call_id, src |-> src]
\* a message item: the role of its message and the text blocks it holds
Message(role, texts) ==
  [type |-> "message", call_id |-> "", src |-> texts[1], role |-> role,
   texts |-> texts]

\* the role of the message that holds block k
RoleAt(req, k) ==
  req[CHOOSE f \in 1..k :
        req[f].first /\ \A j \in (f + 1)..k : ~req[j].first].role

\* the last block of the message whose first block is at from
MessageEnd(req, from) ==
  CHOOSE to \in from..Len(req) :
    /\ \A j \in (from + 1)..to : ~req[j].first
    /\ to = Len(req) \/ req[to + 1].first

\* convertToolResult: the call_id of the function_call_output
convertToolResult(block, m) ==
  LET found == getOpenAICallId(m, block.id)
      call_id == IF found = "" THEN fixOpenAIPrefix(block.id) ELSE found
  IN IF isValidOpenAIPrefix(call_id) THEN call_id
     ELSE fixOpenAIPrefix(call_id)

\* mutant: the buffer is not emptied by a flush
flushBuffer_keepsBuffer(acc) ==
  IF acc.buffer = <<>> THEN acc
  ELSE [acc EXCEPT !.result = Append(@, Message(acc.role, acc.buffer))]

\* flushBuffer: the text blocks gathered so far become one message item
flushBuffer(acc) ==
  IF acc.buffer = <<>> THEN acc
  ELSE [acc EXCEPT !.result = Append(@, Message(acc.role, acc.buffer)),
                   !.buffer = <<>>]

\* the tool_use arm: the bound call id, else a new call_ id that is registered
convertToolUse(acc, block, k) ==
  LET flushed == flushBuffer(acc)
      found == getOpenAICallId(flushed.m, block.id)
      fresh == "call_g" \o ToString(flushed.m.generated + 1)
  IN IF found # ""
     THEN [flushed EXCEPT
             !.result = Append(@, Item("function_call", found, k))]
     ELSE [flushed EXCEPT
             !.result = Append(@, Item("function_call", fresh, k)),
             !.m = [register(@, fresh, block.id) EXCEPT
                      !.generated = @ + 1]]

\* convertClaudeMessage on the blocks from..to of one message
RECURSIVE convertClaudeMessage(_, _, _, _)
convertClaudeMessage(req, from, to, acc) ==
  IF from > to THEN flushBuffer(acc)
  ELSE LET block == req[from]
           next ==
             CASE block.type = "text" ->
                    [acc EXCEPT !.buffer = Append(@, from)]
               [] block.type = "tool_use" -> convertToolUse(acc, block, from)
               [] block.type = "tool_result" ->
                    [flushBuffer(acc) EXCEPT
                       !.result = Append(@,
                          Item("function_call_output",
                               convertToolResult(block, flushBuffer(acc).m),
                               from))]
       IN convertClaudeMessage(req, from + 1, to, next)

\* the loop of claudeToResponses over req.messages
RECURSIVE convertMessages(_, _, _)
convertMessages(req, from, acc) ==
  IF from > Len(req) THEN acc
  ELSE LET to == MessageEnd(req, from)
           one == convertClaudeMessage(req, from, to,
                                       [acc EXCEPT !.result = <<>>,
                                                   !.role = req[from].role])
       IN convertMessages(req, to + 1,
                          [one EXCEPT !.result = acc.result \o one.result])

\* the call ids of the function_call_output items of input
outputIds(input) ==
  {input[i].call_id : i \in {j \in 1..Len(input) :
                                input[j].type = "function_call_output"
                                /\ input[j].call_id # ""}}

\* mutant: nothing is dropped
filterInput_keepAll(input, ids) == input

\* input.filter: a function_call stays when an output carries its call_id
RECURSIVE filterInput(_, _)
filterInput(input, ids) ==
  IF input = <<>> THEN <<>>
  ELSE LET item == Head(input)
           keep == IF item.type = "function_call" /\ item.call_id # ""
                   THEN item.call_id \in ids
                   ELSE TRUE
       IN (IF keep THEN <<item>> ELSE <<>>) \o filterInput(Tail(input), ids)

\* claudeToResponses: the request sent upstream, the items before the
\* filter, and the manager after the conversion
claudeToResponses(req, previousResponseId, m) ==
  LET acc == convertMessages(req, 1,
                             [result |-> <<>>, buffer |-> <<>>, role |-> "",
                              m |-> m])
  IN [input |-> filterInput(acc.result, outputIds(acc.result)),
      converted |-> acc.result,
      previous_response_id |-> previousResponseId,
      m |-> acc.m]

\* updateConversationState: each field is stored only when it is given
updatedResponseId(old, responseId) == IF responseId # "" THEN responseId ELSE old

\* mutant: bindings already stored are never replaced
updatedMapping_keepOld(old, callIdMapping) ==
  IF DOMAIN old # {} THEN old ELSE callIdMapping

updatedMapping(old, callIdMapping) ==
  IF DOMAIN callIdMapping # {} THEN callIdMapping ELSE old

\* ------------------------------------------------------- ConversationStore
\* Times are in minutes.
maxAge == 30
sweepEvery == 5
ConvId == "K"

NoContext == [k \in {} |-> <<>>]

\* a new context (createdAt is never read)
Context(t) ==
  [lastResponseId |-> "", callIdMapping |-> EmptyMap, lastAccessedAt |-> t]

\* getOrCreate at time t: the store afterwards (the context is cs[id])
getOrCreate(cs, id, t) ==
  IF id \in DOMAIN cs THEN [cs EXCEPT ![id].lastAccessedAt = t]
  ELSE [x \in DOMAIN cs \cup {id} |-> IF x = id THEN Context(t) ELSE cs[x]]

getConversationContext(cs, id, t) == getOrCreate(cs, id, t)

\* update: Object.assign of the given fields ("" and the empty map stand
\* for a field that is not given), then the touch
update(cs, id, responseId, callIdMapping, t) ==
  LET got == getOrCreate(cs, id, t)
  IN [got EXCEPT
        ![id].lastResponseId = updatedResponseId(@, responseId),
        ![id].callIdMapping = updatedMapping(@, callIdMapping),
        ![id].lastAccessedAt = t]

\* updateConversationState: update is called only when a field is given
updateConversationState(cs, id, responseId, callIdMapping, t) ==
  IF responseId # "" \/ DOMAIN callIdMapping # {}
  THEN update(cs, id, responseId, callIdMapping, t)
  ELSE cs

\* mutant: a record is removed as soon as it is maxAge old
cleanup_atMaxAge(cs, t) ==
  [x \in {y \in DOMAIN cs : ~(t - cs[y].lastAccessedAt >= maxAge)} |-> cs[x]]

\* cleanup at time t
cleanup(cs, t) ==
  [x \in {y \in DOMAIN cs : ~(t - cs[y].lastAccessedAt > maxAge)} |-> cs[x]]

\* importFromMap on a whole manager
RECURSIVE importManager(_, _)
importManager(m, map) ==
  IF DOMAIN map = {} THEN m
  ELSE LET k == CHOOSE x \in DOMAIN map : TRUE
       IN importManager(register(m, k, map[k]),
                        [x \in DOMAIN map \ {k} |-> map[x]])

\* getMappingAsMap
getMappingAsMap(m) == m.mappings

\* no request translated yet, an empty store, no request in flight
NoRequest == [input |-> <<>>, converted |-> <<>>, previous_response_id |-> "",
              translated |-> FALSE, failed |-> FALSE]

ConverterInit ==
  /\ mgr = EmptyManager
  /\ claudeReq = <<>>
  /\ openaiReq = NoRequest
  /\ streamed = <<>>

RequestIds == {"A", "B"}

\* a request: where it stands, what its StreamState has captured, and whether
\* another request of the conversation was in flight while it was
Idle == [phase |-> "idle", responseId |-> "", callIdMapping |-> EmptyMap,
         overlapped |-> FALSE]

ClockedInit ==
  /\ now = 0
  /\ conversations = NoContext
  /\ requests = [r \in RequestIds |-> Idle]

\* ------------------------------------------------------- response translator
\* the arguments strings of a function_call: none, two JSON texts and a text
\* cut short
Arguments == {"", "{}", "{\"x\":1}", "{\"x\":"}

\* JSON.parse on these texts: the members of the object, or a SyntaxError
JSONparse(text) ==
  CASE text = "{}" -> [ok |-> TRUE, value |-> {}]
    [] text = "{\"x\":1}" -> [ok |-> TRUE, value |-> {<<"x", 1>>}]
    [] OTHER -> [ok |-> FALSE, value |-> {}]

ToolNames == {"f", "g"}
ResponseStatuses ==
  {<<"completed", "">>, <<"incomplete", "max_output_tokens">>,
   <<"incomplete", "content_filter">>}

OutputItem(type, id, call_id, name, arguments, text) ==
  [type |-> type, id |-> id, call_id |-> call_id, name |-> name,
   arguments |-> arguments, text |-> text]

\* the items of an upstream response: a message with one output_text, and
\* function calls, each with its id and its call_id
OutputItems ==
  {OutputItem("message", "msg_1", "", "", "", "t")}
  \cup {OutputItem("function_call", i, CallIdOf(i), n, a, "") :
          i \in StreamedItems, n \in ToolNames, a \in Arguments}

Outputs ==
  {o \in UNION {[1..n -> OutputItems] : n \in 0..MaxOutputs} :
     \A j, k \in 1..Len(o) :
       (j # k /\ o[j].type = "function_call" /\ o[k].type = "function_call")
         => o[j].id # o[k].id}

Responses ==
  {[output |-> o, status |-> st[1], reason |-> st[2]] :
     o \in Outputs, st \in ResponseStatuses}

ContentBlock(type, id, name, input, text, src) ==
  [type |-> type, id |-> id, name |-> name, input |-> input, text |-> text,
   src |-> src]

\* toolu_<Date.now()>_<random>: an id no other block of the response has
toolUseId(k) == "toolu_" \o ToString(k)

\* mutant: the returned map is left as it is
setMapping_skip(callIdMapping, openaiCallId, toolUseIdOfBlock) == callIdMapping

\* callIdMapping.set(openaiCallId, toolUseId)
setMapping(callIdMapping, openaiCallId, toolUseIdOfBlock) ==
  MapSet(callIdMapping, openaiCallId, toolUseIdOfBlock)

\* the loop over openaiResponse.output; a SyntaxError of JSON.parse ends it
RECURSIVE convertOutputs(_, _, _)
convertOutputs(output, k, acc) ==
  IF k > Len(output) \/ acc.threw THEN acc
  ELSE LET item == output[k]
           parsed == JSONparse(IF item.arguments = "" THEN "{}"
                               ELSE item.arguments)
           key == IF item.call_id # "" THEN item.call_id ELSE item.id
           next ==
             CASE item.type = "message" ->
                    [acc EXCEPT !.textContent = Append(@, item.text)]
               [] item.type = "function_call" /\ item.id # "" ->
                    IF ~parsed.ok THEN [acc EXCEPT !.threw = TRUE]
                    ELSE [acc EXCEPT
                            !.toolUseBlocks =
                               Append(@, ContentBlock("tool_use", toolUseId(k),
                                                      item.name, parsed.value,
                                                      "", k)),
                            !.m = register(@, key, toolUseId(k)),
                            !.callIdMapping = setMapping(@, key, toolUseId(k))]
               [] OTHER -> acc
       IN convertOutputs(output, k + 1, next)

\* textContent.join("")
RECURSIVE JoinText(_)
JoinText(seq) == IF seq = <<>> THEN "" ELSE Head(seq) \o JoinText(Tail(seq))

\* the stop reason of a translated response
messageStopReason(status, reason, nToolUseBlocks) ==
  IF status = "incomplete"
  THEN IF reason = "max_output_tokens" THEN "max_tokens" ELSE "end_turn"
  ELSE IF nToolUseBlocks > 0 THEN "tool_use"
  ELSE "end_turn"

NoMessage ==
  [done |-> FALSE, threw |-> FALSE, content |-> <<>>, stop_reason |-> "",
   callIdMapping |-> EmptyMap]

\* convertOpenAIResponseToClaude with the conversation's manager: the message,
\* the returned map, the manager afterwards, and whether it threw
convertOpenAIResponseToClaude(openaiResponse, m) ==
  LET acc == convertOutputs(openaiResponse.output, 1,
                            [textContent |-> <<>>, toolUseBlocks |-> <<>>,
                             callIdMapping |-> EmptyMap, m |-> m,
                             threw |-> FALSE])
      text == IF acc.textContent # <<>>
              THEN <<ContentBlock("text", "", "", {}, JoinText(acc.textContent),
                                  0)>>
              ELSE <<>>
  IN IF acc.threw
     THEN [message |-> [NoMessage EXCEPT !.done = TRUE, !.threw = TRUE],
           m |-> acc.m]
     ELSE [message |->
             [done |-> TRUE, threw |-> FALSE,
              content |-> text \o acc.toolUseBlocks,
              stop_reason |-> messageStopReason(openaiResponse.status,
                                                openaiResponse.reason,
                                                Len(acc.toolUseBlocks)),
              callIdMapping |-> acc.callIdMapping],
           m |-> acc.m]

NoResponse == [output |-> <<>>, status |-> "", reason |-> ""]

\* --------------------------------------------------------- schema normalizer
\* A JSON schema: its type and format ("" = absent), its required list, its
\* properties (the keys in the order of Object.keys), its items and its
\* additionalProperties ("absent", "true" or "false").
NoSchema == [present |-> FALSE]
NoProperties == [present |-> FALSE]
NoRequired == [isArray |-> FALSE, names |-> <<>>]
Required(names) == [isArray |-> TRUE, names |-> names]
Properties(keys, of) == [present |-> TRUE, keys |-> keys, of |-> of]
JSONSchema(type, format, required, properties, items, additionalProperties) ==
  [present |-> TRUE, type |-> type, format |-> format, required |-> required,
   properties |-> properties, items |-> items,
   additionalProperties |-> additionalProperties]

RECURSIVE SchemasOfDepth(_)
SchemasOfDepth(n) ==
  IF n = 0
  THEN {JSONSchema("string", f, NoRequired, NoProperties, NoSchema, "absent") :
          f \in {"", "uri"}}
       \cup {JSONSchema("object", "", NoRequired, pr, NoSchema, "absent") :
               pr \in {NoProperties, Properties(<<>>, <<>>)}}
  ELSE LET below == SchemasOfDepth(n - 1)
       IN below
          \cup {JSONSchema(t, "", r, Properties(<<"a">>, [k \in {"a"} |-> c]),
                           NoSchema, x) :
                  t \in {"object", ""},
                  r \in {NoRequired, Required(<<"b", "a", "b">>)},
                  c \in below, x \in {"absent", "true"}}
          \cup {JSONSchema(t, "", NoRequired, NoProperties, c, "absent") :
                  t \in {"array", "object"}, c \in below}

Schemas == SchemasOfDepth(MaxDepth)

\* mutant: the names are kept as they come
Dedup_keepAll(seq) == seq

\* Array.from(new Set(seq)): the first occurrence of each name, in order
RECURSIVE Dedup(_)
Dedup(seq) ==
  IF seq = <<>> THEN <<>>
  ELSE LET front == Dedup(SubSeq(seq, 1, Len(seq) - 1))
           last == seq[Len(seq)]
       IN IF \E i \in 1..Len(front) : front[i] = last THEN front
          ELSE Append(front, last)

RECURSIVE ensureRequiredRec(_)
ensureRequiredRec(sch) ==
  LET s1 == IF sch.type = "object" /\ sch.properties.present
            THEN [sch EXCEPT !.required =
                    Required(Dedup((IF @.isArray THEN @.names ELSE <<>>)
                                   \o sch.properties.keys))]
            ELSE sch
      s2 == IF s1.type = "array" /\ s1.items.present
            THEN [s1 EXCEPT !.items = ensureRequiredRec(@)]
            ELSE s1
  IN IF s2.properties.present
     THEN [s2 EXCEPT !.properties.of =
             [k \in DOMAIN @ |-> ensureRequiredRec(@[k])]]
     ELSE s2

RECURSIVE removeUnsupportedFormats(_)
removeUnsupportedFormats(sch) ==
  LET s1 == IF sch.format = "uri" THEN [sch EXCEPT !.format = ""] ELSE sch
      s2 == IF s1.properties.present
            THEN [s1 EXCEPT !.properties.of =
                    [k \in DOMAIN @ |-> removeUnsupportedFormats(@[k])]]
            ELSE s1
  IN IF s2.items.present
     THEN [s2 EXCEPT !.items = removeUnsupportedFormats(@)]
     ELSE s2

RECURSIVE ensureAdditionalPropertiesFalseRec(_)
ensureAdditionalPropertiesFalseRec(sch) ==
  LET s1 == IF sch.type = "object"
            THEN [sch EXCEPT !.additionalProperties = "false"]
            ELSE sch
      s2 == IF s1.items.present
            THEN [s1 EXCEPT !.items = ensureAdditionalPropertiesFalseRec(@)]
            ELSE s1
  IN IF s2.properties.present
     THEN [s2 EXCEPT !.properties.of =
             [k \in DOMAIN @ |-> ensureAdditionalPropertiesFalseRec(@[k])]]
     ELSE s2

\* normalizeJSONSchemaForOpenAI: the three passes on a clone of the input
normalizeJSONSchemaForOpenAI(inputSchema) ==
  ensureAdditionalPropertiesFalseRec(
    removeUnsupportedFormats(ensureRequiredRec(inputSchema)))

PureInit ==
  /\ upResponse = NoResponse
  /\ claudeMsg = NoMessage
  /\ schema = NoSchema
  /\ normalized = NoSchema
  /\ renormalized = NoSchema

\* ------------------------------------------------------------------- actions
Init ==
  /\ webSearchAsTool \in BOOLEAN
  /\ phase = "idle"
  /\ turn = 0
  /\ state = InitState
  /\ frames = <<>>
  /\ completed = FALSE
  /\ pingTimer = FALSE
  /\ closed = FALSE
  /\ aborted = FALSE
  /\ nEvents = 0
  /\ totalEvents = 0
  /\ nPings = 0
  /\ lastResponseId = ""
  /\ storeMapping = EmptyMap
  /\ managerMap = EmptyMap
  /\ respBefore = ""
  /\ finalStatus = <<>>
  /\ droppedEvents = 0
  /\ announcedId = ""
  /\ httpStatus = 0
  /\ activePipelines = {}
  /\ upstreamText = ""
  /\ ConverterInit
  /\ ClockedInit
  /\ PureInit

Store == <<lastResponseId, storeMapping, managerMap>>

\* createResponseProcessor, then processStreamingResponse up to the upstream
\* call; streamSSE hands its Response to the handler before its callback ends,
\* so process(c) resolves without a throw
BeginTurn ==
  /\ phase \in {"idle", "done"}
  /\ turn < MaxTurns
  /\ turn' = turn + 1
  /\ respBefore' = lastResponseId
  /\ managerMap' = importFromMap(managerMap, storeMapping)
  /\ state' = InitState
  /\ frames' = <<>>
  /\ completed' = FALSE
  /\ pingTimer' = FALSE
  /\ closed' = FALSE
  /\ aborted' = FALSE
  /\ nEvents' = 0
  /\ finalStatus' = <<>>
  /\ droppedEvents' = 0
  /\ announcedId' = ""
  /\ activePipelines' = create(activePipelines, turn')
  /\ httpStatus' = respond(FALSE, FALSE)
  /\ phase' = "creating"
  /\ upstreamText' = ""
  /\ UNCHANGED <<Fixed, totalEvents, nPings, lastResponseId,
                 storeMapping>>

\* responses.create rejects: the catch block writes the error frame
CreateFails ==
  /\ phase = "creating"
  /\ frames' = handleError(frames)
  /\ phase' = "failing"
  /\ UNCHANGED <<Fixed, upstreamText, announcedId, httpStatus, activePipelines,
                 turn, state, completed, pingTimer, closed,
                 aborted, nEvents, totalEvents, nPings, Store, respBefore,
                 finalStatus, droppedEvents>>

\* responses.create resolves: pipeline.start()
StartPipeline ==
  /\ phase = "creating"
  /\ LET r == start(state, frames)
     IN /\ state' = r.s
        /\ frames' = r.out
  /\ pingTimer' = TRUE
  /\ phase' = "streaming"
  /\ UNCHANGED <<Fixed, upstreamText, announcedId, httpStatus, activePipelines,
                 turn, completed, closed, aborted, nEvents,
                 totalEvents, nPings, Store, respBefore, finalStatus,
                 droppedEvents>>

\* after the loop: getResult, importFromMap, updateConversationState, release
ExitLoop(s) ==
  /\ managerMap' = importFromMap(managerMap, s.callIdMapping)
  /\ lastResponseId' = updatedResponseId(lastResponseId, s.responseId)
  /\ storeMapping' = updatedMapping(storeMapping, managerMap')
  /\ pingTimer' = stopPingTimer(pingTimer)
  /\ activePipelines' = release(activePipelines, turn)
  /\ phase' = "done"

\* one iteration of the for-await loop
\* the event as the upstream sends it: the part of a content_part.done holds
\* the whole output text streamed so far
sent(ev, text) ==
  IF ev.type = "response.content_part.done" /\ ev.part = "output_text"
  THEN [ev EXCEPT !.delta = text]
  ELSE ev

LoopEvent(ev) ==
  /\ phase = "streaming"
  /\ totalEvents < MaxEvents
  /\ nEvents' = nEvents + 1
  /\ totalEvents' = totalEvents + 1
  /\ IF aborted
     THEN /\ UNCHANGED <<state, frames, completed, finalStatus, announcedId>>
          /\ ExitLoop(state)
     ELSE LET r == processEvent(state, frames, completed, sent(ev, upstreamText))
          IN /\ state' = r.s
             /\ frames' = r.out
             /\ completed' = r.completed
             /\ finalStatus' = IF r.completed THEN <<ev.status, ev.reason>>
                               ELSE finalStatus
             /\ announcedId' = IF ev.type = "response.created" THEN ev.rid
                               ELSE announcedId
             /\ IF r.completed \/ closed
                THEN ExitLoop(r.s)
                ELSE UNCHANGED <<Store, pingTimer, activePipelines, phase>>
  /\ upstreamText' = IF ev.type = "response.output_text.delta"
                     THEN upstreamText \o ev.delta ELSE upstreamText
  /\ UNCHANGED <<Fixed, httpStatus, turn, closed, aborted, nPings, respBefore,
                 droppedEvents>>

\* the upstream stream ends without response.completed
UpstreamEnds ==
  /\ phase = "streaming"
  /\ ExitLoop(state)
  /\ UNCHANGED <<Fixed, upstreamText, announcedId, httpStatus,
                 turn, state, frames, completed, closed,
                 aborted, nEvents, totalEvents, nPings, respBefore,
                 finalStatus, droppedEvents>>

\* reading the upstream stream throws: the catch block writes the error frame
UpstreamThrows ==
  /\ phase = "streaming"
  /\ frames' = handleError(frames)
  /\ phase' = "failing"
  /\ UNCHANGED <<Fixed, upstreamText, announcedId, httpStatus, activePipelines,
                 turn, state, completed, pingTimer, closed,
                 aborted, nEvents, totalEvents, nPings, Store, respBefore,
                 finalStatus, droppedEvents>>

\* finally: streamingPipelineFactory.release
Release ==
  /\ phase = "failing"
  /\ pingTimer' = stopPingTimer(pingTimer)
  /\ activePipelines' = release(activePipelines, turn)
  /\ phase' = "done"
  /\ UNCHANGED <<Fixed, upstreamText, announcedId, httpStatus,
                 turn, state, frames, completed, closed,
                 aborted, nEvents, totalEvents, nPings, Store, respBefore,
                 finalStatus, droppedEvents>>

\* the interval callback of startPingTimer
PingTick ==
  /\ pingTimer
  /\ nPings < MaxPings
  /\ nPings' = nPings + 1
  /\ frames' = IF ~closed THEN ping(frames) ELSE frames
  /\ UNCHANGED <<Fixed, upstreamText, announcedId, httpStatus, activePipelines,
                 phase, turn, state, completed, pingTimer,
                 closed, aborted, nEvents, totalEvents, Store, respBefore,
                 finalStatus, droppedEvents>>

\* the client goes away: stream.closed becomes true
TransportClose ==
  /\ phase \in {"creating", "streaming", "failing"}
  /\ ~closed
  /\ closed' = TRUE
  /\ UNCHANGED <<Fixed, upstreamText, announcedId, httpStatus, activePipelines,
                 phase, turn, state, frames, completed,
                 pingTimer, aborted, nEvents, totalEvents, nPings, Store,
                 respBefore, finalStatus, droppedEvents>>

\* the request timeout or the disconnect listener: abortController.abort()
Abort ==
  /\ phase \in {"creating", "streaming"}
  /\ ~aborted
  /\ aborted' = TRUE
  /\ UNCHANGED <<Fixed, upstreamText, announcedId, httpStatus, activePipelines,
                 phase, turn, state, frames, completed,
                 pingTimer, closed, nEvents, totalEvents, nPings, Store,
                 respBefore, finalStatus, droppedEvents>>

\* processEvent called on a pipeline that has completed
LateEvent(ev) ==
  /\ phase = "done"
  /\ completed
  /\ totalEvents < MaxEvents
  /\ nEvents' = nEvents + 1
  /\ totalEvents' = totalEvents + 1
  /\ LET r == processEvent(state, frames, completed, ev)
     IN /\ state' = r.s
        /\ frames' = r.out
        /\ completed' = r.completed
  /\ droppedEvents' = droppedEvents + 1
  /\ UNCHANGED <<Fixed, upstreamText, announcedId, httpStatus, activePipelines,
                 phase, turn, pingTimer, closed, aborted,
                 nPings, Store, respBefore, finalStatus>>

Next ==
  \/ BeginTurn
  \/ CreateFails
  \/ StartPipeline
  \/ \E ev \in Events : LoopEvent(ev)
  \/ UpstreamEnds
  \/ UpstreamThrows
  \/ Release
  \/ PingTick
  \/ TransportClose
  \/ Abort
  \/ \E ev \in Events : LateEvent(ev)

Spec == Init /\ [][Next]_vars

\* ------------------------------------------------ the translator, step by step
\* the call ids an upstream gives and the tool use ids a client sends back
UpstreamCallIds == {"call_1", "call_2", "tc_1"}
ToolUseIds == {"fc_1", "fc_2", "toolu_1"}

Roles == {"user", "assistant"}
Shapes == {<<"text", "">>}
          \cup {<<t, id>> : t \in {"tool_use", "tool_result"}, id \in ToolUseIds}
Blocks ==
  {Block(sh[1], sh[2], TRUE, role) : sh \in Shapes, role \in Roles}
  \cup {Block(sh[1], sh[2], FALSE, "") : sh \in Shapes}

\* a streamed turn ends: its binding call_id -> item id reaches the manager
\* (StreamState callIdMapping.set, then importFromMap after the loop)
StreamedBinding(call_id, item) ==
  /\ ~openaiReq.translated
  /\ Len(streamed) < MaxRegs
  /\ streamed' = Append(streamed, <<call_id, item>>)
  /\ mgr' = importManager(mgr, MapSet(EmptyMap, call_id, item))
  /\ UNCHANGED <<Session, Pure, Clocked, claudeReq, openaiReq>>

\* the client's next request grows by one content block; the messages of a
\* conversation are the user's and the assistant's in turn
AddBlock(block) ==
  /\ ~openaiReq.translated
  /\ Len(claudeReq) < MaxBlocks
  /\ claudeReq = <<>> => block.first
  /\ (block.first /\ claudeReq # <<>>)
       => block.role # RoleAt(claudeReq, Len(claudeReq))
  /\ claudeReq' = Append(claudeReq, block)
  /\ UNCHANGED <<Session, Pure, Clocked, mgr, openaiReq, streamed>>

\* createResponseProcessor: claudeToResponses with the conversation's manager
Translate ==
  /\ ~openaiReq.translated
  /\ claudeReq # <<>>
  /\ LET r == claudeToResponses(claudeReq, "", mgr)
     IN /\ openaiReq' = [input |-> r.input, converted |-> r.converted,
                         previous_response_id |-> r.previous_response_id,
                         translated |-> TRUE, failed |-> FALSE]
        /\ mgr' = r.m
  /\ UNCHANGED <<Session, Pure, Clocked, claudeReq, streamed>>

\* processNonStreamingResponse: responses.create rejects, the catch logs and
\* rethrows; nothing is stored
UpstreamCallFails ==
  /\ openaiReq.translated
  /\ ~openaiReq.failed
  /\ openaiReq' = [openaiReq EXCEPT !.failed = TRUE]
  /\ UNCHANGED <<Session, Pure, Clocked, mgr, claudeReq, streamed>>

ConvNext ==
  \/ \E c \in UpstreamCallIds, i \in StreamedItems : StreamedBinding(c, i)
  \/ \E b \in Blocks : AddBlock(b)
  \/ Translate
  \/ UpstreamCallFails

\* the session plays no part: one of its two sources is enough
QuietInit == Init /\ webSearchAsTool = TRUE

ConvSpec == QuietInit /\ [][ConvNext]_vars

\* ------------------------------------------- requests, the store and the clock
\* Requests that leave their loop by an exception store nothing and are not
\* part of this specification.
\* the call id the upstream gives the function call of a request, and the
\* response id it announces
CallPool(r) == IF r = "A" THEN "call_1" ELSE "call_2"
RespIdOf(r) == "resp_" \o r
Running(r) == requests[r].phase = "running"

\* createResponseProcessor: the context is read, its bindings are imported
BeginRequest(r) ==
  /\ requests[r].phase # "running"
  /\ conversations' = getConversationContext(conversations, ConvId, now)
  /\ mgr' = importManager(mgr, conversations'[ConvId].callIdMapping)
  /\ LET busy == \E q \in RequestIds \ {r} : Running(q)
     IN requests' =
          [q \in RequestIds |->
             IF q = r THEN [Idle EXCEPT !.phase = "running",
                                        !.overlapped = busy]
             ELSE IF Running(q) THEN [requests[q] EXCEPT !.overlapped = TRUE]
             ELSE requests[q]]
  /\ UNCHANGED <<Session, Pure, now, claudeReq, openaiReq, streamed>>

\* response.created reaches the request's StreamState
StreamCreated(r) ==
  /\ Running(r)
  /\ requests[r].responseId = ""
  /\ requests' = [requests EXCEPT ![r].responseId = RespIdOf(r)]
  /\ UNCHANGED <<Session, Pure, Converter, now, conversations>>

\* response.output_item.added of a function call reaches it
StreamFunctionCall(r, item) ==
  /\ Running(r)
  /\ DOMAIN requests[r].callIdMapping = {}
  /\ requests' = [requests EXCEPT
                    ![r].callIdMapping = MapSet(@, CallPool(r), item)]
  /\ UNCHANGED <<Session, Pure, Converter, now, conversations>>

\* the loop is left: importFromMap, then updateConversationState
FinishRequest(r) ==
  /\ Running(r)
  /\ mgr' = importManager(mgr, requests[r].callIdMapping)
  /\ conversations' =
       updateConversationState(conversations, ConvId, requests[r].responseId,
                               getMappingAsMap(mgr'), now)
  /\ requests' = [requests EXCEPT ![r].phase = "done"]
  /\ UNCHANGED <<Session, Pure, now, claudeReq, openaiReq, streamed>>

\* the interval of the constructor fires: sweepEvery minutes have passed
\* since it last did, and cleanup runs
ClockTick ==
  /\ now < MaxSweeps * sweepEvery
  /\ now' = now + sweepEvery
  /\ conversations' = cleanup(conversations, now')
  /\ UNCHANGED <<Session, Pure, Converter, requests>>

StoreNext ==
  \/ \E r \in RequestIds : BeginRequest(r)
  \/ \E r \in RequestIds : StreamCreated(r)
  \/ \E r \in RequestIds, i \in StreamedItems : StreamFunctionCall(r, i)
  \/ \E r \in RequestIds : FinishRequest(r)
  \/ ClockTick

StoreSpec == QuietInit /\ [][StoreNext]_vars

\* ------------------------------------- a complete response, step by step
\* responses.create resolves with a complete response
ReceiveResponse(r) ==
  /\ upResponse = NoResponse
  /\ upResponse' = r
  /\ UNCHANGED <<Session, Converter, Clocked, claudeMsg, schema, normalized,
                 renormalized>>

\* processNonStreamingResponse: convertOpenAIResponseToClaude(response, manager)
ConvertResponse ==
  /\ upResponse # NoResponse
  /\ ~claudeMsg.done
  /\ LET r == convertOpenAIResponseToClaude(upResponse, mgr)
     IN /\ claudeMsg' = r.message
        /\ mgr' = r.m
  /\ UNCHANGED <<Session, Clocked, claudeReq, openaiReq, streamed, upResponse,
                 schema, normalized, renormalized>>

RespNext ==
  \/ \E r \in Responses : ReceiveResponse(r)
  \/ ConvertResponse

RespSpec == QuietInit /\ [][RespNext]_vars

\* --------------------------------------------- a tool schema, step by step
\* a client's tool arrives with its input_schema
ReceiveSchema(sch) ==
  /\ ~schema.present
  /\ schema' = sch
  /\ UNCHANGED <<Session, Converter, Clocked, upResponse, claudeMsg,
                 normalized, renormalized>>

\* convertClaudeToolToOpenAI: normalizeJSONSchemaForOpenAI(t.input_schema)
Normalize ==
  /\ schema.present
  /\ ~normalized.present
  /\ normalized' = normalizeJSONSchemaForOpenAI(schema)
  /\ UNCHANGED <<Session, Converter, Clocked, upResponse, claudeMsg, schema,
                 renormalized>>

\* the normalized schema is normalized once more
NormalizeAgain ==
  /\ normalized.present
  /\ ~renormalized.present
  /\ renormalized' = normalizeJSONSchemaForOpenAI(normalized)
  /\ UNCHANGED <<Session, Converter, Clocked, upResponse, claudeMsg, schema,
                 normalized>>

NormNext ==
  \/ \E sch \in Schemas : ReceiveSchema(sch)
  \/ Normalize
  \/ NormalizeAgain

NormSpec == QuietInit /\ [][NormNext]_vars

TypeOK ==
  /\ phase \in {"idle", "creating", "streaming", "failing", "done"}
  /\ nEvents \in 0..MaxEvents
  /\ Len(state.blocks) = Len(state.metadata)

\* --------------------------------------------------------- frames of a session
FramePos == 1..Len(frames)
OfType(type) == {k \in FramePos : frames[k].type = type}
StopsAt(i) == {k \in OfType("content_block_stop") : frames[k].index = i}
StartFrames == SelectSeq(frames, LAMBDA f : f.type = "content_block_start")
MaxTokensStatus == <<"incomplete", "max_output_tokens">>

\* C1: in a session that processed response.completed every content_block_start
\* at index i has exactly one content_block_stop at index i, written after it
\* and before message_stop, whatever the kind of the block
C1_StartHasOneStop ==
  completed =>
    \A k \in OfType("content_block_start") :
      /\ Cardinality(StopsAt(frames[k].index)) = 1
      /\ \A j \in StopsAt(frames[k].index) :
           /\ k < j
           /\ \A m \in OfType("message_stop") : j < m

\* the pairing holds in the sessions served by utils/stream-state.ts
ToolVariantPaired == webSearchAsTool => C1_StartHasOneStop

\* C2: the indexes of the successive content_block_start frames of a session
\* are 0, 1, 2, ... in emission order
C2_StartIndexesDense ==
  \A n \in 1..Len(StartFrames) : StartFrames[n].index = n - 1

C2_Witness ==
  /\ Len(StartFrames) >= 3
  /\ \E n \in 1..Len(StartFrames) : StartFrames[n].info = "text"
  /\ \E n \in 1..Len(StartFrames) : StartFrames[n].info # "text"

\* C3: a session that processed response.completed wrote exactly one
\* message_start and exactly one message_stop, and message_stop is its last frame
C3_OneStartOneStopLast ==
  completed =>
    /\ Cardinality(OfType("message_start")) = 1
    /\ Cardinality(OfType("message_stop")) = 1
    /\ frames[Len(frames)].type = "message_stop"

C3_Witness ==
  /\ completed
  /\ Cardinality(OfType("ping")) >= 2
  /\ OfType("content_block_stop") # {}
  /\ droppedEvents > 0

\* C4: a session that processed response.completed wrote exactly one
\* message_delta, it carries a stop_reason, and it comes after every
\* content_block_stop and before message_stop
C4_OneMessageDeltaInPlace ==
  completed =>
    /\ Cardinality(OfType("message_delta")) = 1
    /\ \A d \in OfType("message_delta") :
         /\ frames[d].info \in {"end_turn", "max_tokens", "tool_use"}
         /\ \A j \in OfType("content_block_stop") : j < d
         /\ \A m \in OfType("message_stop") : d < m

C4_Witness ==
  /\ completed
  /\ Cardinality(OfType("content_block_stop")) >= 2

\* C5: an upstream event handed to a session whose completed latch is set
\* writes no frame and changes nothing of the StreamState (blocks, bindings,
\* response id)
C5_LatchedEventsDropped ==
  [][(state.streamCompleted /\ nEvents' = nEvents + 1) =>
       (frames' = frames /\ state' = state)]_vars

C5_Witness ==
  /\ state.streamCompleted
  /\ droppedEvents > 0
  /\ state.blocks # <<>>

\* C6: when response.completed is not incomplete for max_output_tokens and a
\* function_call item was added earlier in the session, the message_delta
\* carries stop_reason tool_use
C6_ToolUseStopReason ==
  (completed /\ DOMAIN state.callIdMapping # {} /\ finalStatus # MaxTokensStatus)
    => \A d \in OfType("message_delta") : frames[d].info = "tool_use"

\* C7: when response.completed is incomplete for max_output_tokens the
\* message_delta carries stop_reason max_tokens, with or without tool blocks
C7_MaxTokensStopReason ==
  finalStatus = MaxTokensStatus =>
    /\ OfType("message_delta") # {}
    /\ \A d \in OfType("message_delta") : frames[d].info = "max_tokens"

C7_Witness ==
  /\ finalStatus = MaxTokensStatus
  /\ \E n \in 1..Len(StartFrames) : StartFrames[n].info = "tool_use"
  /\ \E d \in OfType("message_delta") : frames[d].info = "max_tokens"

\* C8: once response.failed, response.incomplete or error has been handled
\* (its error frame is written) the completed latch is set
C8_ErrorSetsLatch ==
  (\E k \in OfType("error") : frames[k].info \in ErrorTypes)
    => (state.streamCompleted \/ completed)

\* C9: the conversation's last_response_id differs from the one read at the
\* start of the turn only if the turn processed response.completed
C9_UpdateOnlyWhenCompleted == lastResponseId # respBefore => completed

\* C10 as claimed: a session that got no upstream event and whose transport
\* has closed wrote message_start and after it nothing but pings
ZeroEventSessionClosed == state.messageStarted /\ nEvents = 0 /\ closed

C10_OnlyStartAndPings ==
  ZeroEventSessionClosed =>
    /\ frames[1].type = "message_start"
    /\ \A k \in FramePos : k > 1 => frames[k].type = "ping"

\* C10 amended: such a session wrote message_start, then only pings and, when
\* reading the upstream failed, one api_error frame: never a content_block
\* frame, a message_delta or a message_stop
C10_StartPingsAndOneError ==
  ZeroEventSessionClosed =>
    /\ frames[1].type = "message_start"
    /\ \A k \in FramePos : k > 1 => frames[k].type \in {"ping", "error"}
    /\ Cardinality(OfType("error")) <= 1
    /\ \A k \in OfType("error") : frames[k].info = "api_error"

C10_Witness ==
  /\ ZeroEventSessionClosed
  /\ phase = "done"
  /\ Cardinality(OfType("ping")) >= 2

\* ---------------------------------------------------------- translated request
ItemsOf(seq, type) == {i \in 1..Len(seq) : seq[i].type = type}
PosIn(seq, item) == CHOOSE i \in 1..Len(seq) : seq[i] = item
HasOutput(seq, call_id) ==
  \E o \in ItemsOf(seq, "function_call_output") : seq[o].call_id = call_id
BoundToolUseIds(m) ==
  {m.reverseMapping[i][1] : i \in 1..Len(m.reverseMapping)}

\* C11: in the request claudeToResponses returns, every function_call has a
\* function_call_output with its call_id in the same input list; of the
\* converted items exactly the function_calls without such an output are
\* missing, and the items that remain are in the order of the conversion.
C11_CallsHaveOutputs ==
  openaiReq.translated =>
    LET input == openaiReq.input
        converted == openaiReq.converted
    IN /\ \A c \in ItemsOf(input, "function_call") :
            HasOutput(input, input[c].call_id)
       /\ \A k \in 1..Len(converted) :
            (\E i \in 1..Len(input) : input[i] = converted[k])
              <=> (converted[k].type = "function_call"
                     => HasOutput(converted, converted[k].call_id))
       /\ \A i, j \in 1..Len(input) :
            i < j => PosIn(converted, input[i]) < PosIn(converted, input[j])

\* a request with a call that survives with its output and a call that is
\* dropped
C11_Witness ==
  /\ openaiReq.translated
  /\ Len(openaiReq.input) < Len(openaiReq.converted)
  /\ ItemsOf(openaiReq.input, "function_call") # {}
  /\ ItemsOf(openaiReq.input, "function_call_output") # {}

\* C12: a tool_result that carries the item id of a streamed function call
\* is translated to a function_call_output whose call_id is the call_id the
\* upstream gave that call.
C12_CallIdRoundTrips ==
  openaiReq.translated =>
    \A b \in 1..Len(streamed) :
      (\A b2 \in 1..Len(streamed) :
          streamed[b2][2] = streamed[b][2] => streamed[b2] = streamed[b])
      => \A o \in ItemsOf(openaiReq.converted, "function_call_output") :
           claudeReq[openaiReq.converted[o].src].id = streamed[b][2]
             => openaiReq.converted[o].call_id = streamed[b][1]

\* C13: a tool_result whose tool_use_id has no binding is translated to a
\* function_call_output whose call_id is that tool_use_id.
C13_FallbackIsToolUseId ==
  openaiReq.translated =>
    \A o \in ItemsOf(openaiReq.converted, "function_call_output") :
      LET tool_use_id == claudeReq[openaiReq.converted[o].src].id
      IN tool_use_id \notin BoundToolUseIds(mgr)
           => openaiReq.converted[o].call_id = tool_use_id

\* ------------------------------------------------------- across two turns
\* C14: when a turn has completed and the upstream announced response id R in
\* its response.created, the next request of the conversation is sent with
\* previous_response_id = R.
C14_PreviousIdIsAnnouncedId ==
  [][(turn' = turn + 1 /\ completed /\ announcedId # "")
       => respBefore' = announcedId]_vars

\* ----------------------------------------------------- the store and the clock
Stored(cs) == IF ConvId \in DOMAIN cs THEN cs[ConvId].callIdMapping ELSE EmptyMap
Finishes(r) == Running(r) /\ requests'[r].phase = "done"
Begins(r) == ~Running(r) /\ requests'[r].phase = "running"

\* C15: no step removes the record of the conversation while a request that
\* obtained it is in flight.
C15_HeldRecordIsKept ==
  [][(ConvId \in DOMAIN conversations /\ ConvId \notin DOMAIN conversations')
       => \A r \in RequestIds : ~Running(r)]_vars

\* C16: when both requests of the conversation have finished, the stored
\* record holds every binding either of them recorded.
C16_NoBindingLost ==
  ((\A r \in RequestIds : requests[r].phase = "done")
     /\ ConvId \in DOMAIN conversations)
  => \A r \in RequestIds : \A k \in DOMAIN requests[r].callIdMapping :
       /\ k \in DOMAIN Stored(conversations)
       /\ Stored(conversations)[k] = requests[r].callIdMapping[k]

\* both requests ran at the same time, each recorded a binding, both finished
C16_Witness ==
  /\ \A r \in RequestIds :
       /\ requests[r].phase = "done"
       /\ requests[r].overlapped
       /\ DOMAIN requests[r].callIdMapping # {}
  /\ ConvId \in DOMAIN conversations

\* C17: a sweep removes exactly the records last accessed more than maxAge
\* minutes before it, no other step removes a record, and no record stays
\* beyond the first sweep after it became that old.
C17_SweepRemovesExactlyStale ==
  [][/\ \A id \in DOMAIN conversations :
          IF now' # now
          THEN (id \in DOMAIN conversations')
                 <=> (now' - conversations[id].lastAccessedAt <= maxAge)
          ELSE id \in DOMAIN conversations'
     /\ \A id \in DOMAIN conversations' :
          now' - conversations'[id].lastAccessedAt < maxAge + sweepEvery]_vars

\* the record of a request that began has been removed by a sweep
C17_Witness ==
  /\ ConvId \notin DOMAIN conversations
  /\ \E r \in RequestIds : requests[r].phase # "idle"
  /\ now > maxAge

\* C18: a request that begins (getConversationContext) or finishes
\* (updateConversationState) leaves the record with lastAccessedAt equal to
\* the time of the call.
C18_EveryOperationTouches ==
  [][\A r \in RequestIds :
       (Begins(r) \/ Finishes(r))
         => /\ ConvId \in DOMAIN conversations'
            /\ conversations'[ConvId].lastAccessedAt = now]_vars

C20_ToolUseIdBoundOnce ==
  \A k1, k2 \in DOMAIN mgr.mappings :
    mgr.mappings[k1] = mgr.mappings[k2] => k1 = k2

\* ------------------------------------------------------- session, continued
ErrorFrames(out) == {k \in 1..Len(out) : out[k].type = "error"}
PingFrames(out) == {k \in 1..Len(out) : out[k].type = "ping"}
OpenTextBlocks ==
  {p \in 1..Len(state.metadata) :
     /\ state.metadata[p].started
     /\ ~state.metadata[p].completed
     /\ BlockOf(state, state.metadata[p]).type = "text"}
ToolBlocks ==
  {p \in 1..Len(state.metadata) :
     BlockOf(state, state.metadata[p]).type = "tool_use"}
ArgFrames(index) ==
  SelectSeq(frames, LAMBDA f : /\ f.type = "content_block_delta"
                               /\ f.info = "input_json_delta"
                               /\ f.index = index)
RECURSIVE JoinData(_)
JoinData(seq) == IF seq = <<>> THEN "" ELSE Head(seq).data \o JoinData(Tail(seq))

\* C21: every frame of a session was written while the transport was open:
\* after the transport has closed no translated event, error frame or ping
\* is written.
C21_NoWriteAfterClose == \A k \in FramePos : frames[k].open

\* C22: a step that ends a session leaves its ping timer cancelled and its
\* pipeline released, and no step of an ended session writes a ping.
C22_EndedSessionIsReleased ==
  [][/\ phase' = "done" => (~pingTimer' /\ turn' \notin activePipelines')
     /\ (phase = "done" /\ phase' = "done")
          => Cardinality(PingFrames(frames')) = Cardinality(PingFrames(frames))
    ]_vars

\* a session ended by an abort after its timer had written a ping
C22_Witness ==
  /\ phase = "done"
  /\ aborted
  /\ ~completed
  /\ Cardinality(PingFrames(frames)) >= 2

\* C23: when reading the upstream stream fails while the transport is open,
\* the session has written exactly one error frame.
C23_OneErrorFrame ==
  [][(phase = "streaming" /\ phase' = "failing" /\ ~closed)
       => Cardinality(ErrorFrames(frames')) = 1]_vars

\* C24: a request that was running when its timeout aborted it is answered
\* with status 499.
C24_TimeoutAnswers499 == aborted => httpStatus = 499

\* C25: at every moment at most one text block is started and not stopped.
C25_OneOpenTextBlock == Cardinality(OpenTextBlocks) <= 1

\* C26: the fragments of the input_json_delta frames written at the index of
\* a tool block, in the order written, concatenate to the block's argument
\* buffer: each delta for the open block wrote one frame with its fragment.
C26_FragmentsConcatenate ==
  \A p \in ToolBlocks :
    JoinData(ArgFrames(state.metadata[p].index)) = state.metadata[p].argsBuffer

\* a function call whose two different fragments were written
C26_Witness ==
  \E p \in ToolBlocks :
    /\ state.metadata[p].call_id # ""
    /\ state.metadata[p].argsBuffer \in {"ab", "ba"}
    /\ Len(ArgFrames(state.metadata[p].index)) = 2

\* ------------------------------------------------------ translated response
FunctionCalls(output) ==
  {k \in 1..Len(output) : output[k].type = "function_call"}
ToolUses(content) ==
  {b \in 1..Len(content) : content[b].type = "tool_use"}

C28_StopReason ==
  (claudeMsg.done /\ ~claudeMsg.threw) =>
    claudeMsg.stop_reason =
      IF upResponse.status = "incomplete"
         /\ upResponse.reason = "max_output_tokens" THEN "max_tokens"
      ELSE IF ToolUses(claudeMsg.content) # {} THEN "tool_use"
      ELSE "end_turn"

\* C29: a function_call whose arguments are not valid JSON does not make the
\* translation fail: it has a tool_use block whose input is the empty object.
C29_InvalidArgumentsGiveEmptyInput ==
  claudeMsg.done =>
    /\ ~claudeMsg.threw
    /\ \A k \in FunctionCalls(upResponse.output) :
         (upResponse.output[k].arguments # ""
            /\ ~JSONparse(upResponse.output[k].arguments).ok)
           => \E b \in ToolUses(claudeMsg.content) :
                /\ claudeMsg.content[b].src = k
                /\ claudeMsg.content[b].input = {}

\* C30: normalizing a normalized schema gives the normalized schema.
C30_NormalizerIdempotent ==
  renormalized.present => renormalized = normalized

\* an object schema with a property and a required list, which the first
\* pass changed
C30_Witness ==
  /\ renormalized.present
  /\ normalized # schema
  /\ schema.type = "object"
  /\ schema.properties.present
  /\ schema.required.isArray
  /\ schema.properties.of["a"].present
  /\ normalized.properties.of["a"] # schema.properties.of["a"]

\* ------------------------------------------------------- normalized schemas
\* the object-typed nodes of a schema, at any depth, through items and
\* properties
RECURSIVE ObjectNodes(_)
ObjectNodes(sch) ==
  (IF sch.type = "object" THEN {sch} ELSE {})
  \cup (IF sch.items.present THEN ObjectNodes(sch.items) ELSE {})
  \cup (IF sch.properties.present
        THEN UNION {ObjectNodes(sch.properties.of[k]) :
                      k \in DOMAIN sch.properties.of}
        ELSE {})

\* C31: in a normalized schema every object-typed node, at any depth, has
\* additionalProperties false and, when it has a properties map, a required
\* list that holds every property name.
C31_ObjectNodesClosed ==
  normalized.present =>
    \A node \in ObjectNodes(normalized) :
      /\ node.additionalProperties = "false"
      /\ node.properties.present =>
           \A i \in 1..Len(node.properties.keys) :
             /\ node.required.isArray
             /\ \E j \in 1..Len(node.required.names) :
                  node.required.names[j] = node.properties.keys[i]

\* ------------------------------------------------- text runs and tool pairs
\* block k opens a maximal run of text blocks of its message
RunStart(req, k) ==
  /\ req[k].type = "text"
  /\ req[k].first \/ req[k - 1].type # "text"
\* the last block of the run that block k opens
RunEnd(req, k) ==
  CHOOSE e \in k..Len(req) :
    /\ \A j \in (k + 1)..e : req[j].type = "text" /\ ~req[j].first
    /\ e = Len(req) \/ req[e + 1].type # "text" \/ req[e + 1].first
RunOf(req, k) == [i \in 1..(RunEnd(req, k) - k + 1) |-> k + i - 1]
ItemTypeOf(blockType) ==
  CASE blockType = "tool_use" -> "function_call"
    [] blockType = "tool_result" -> "function_call_output"
    [] OTHER -> "message"

\* C32: the items converted from a request are in the order of its blocks;
\* every maximal run of text blocks of a message becomes exactly one message
\* item, with the role of the message and the texts of the run, every
\* tool_use and tool_result block becomes one item of its kind, and no other
\* item is emitted: a message of tool blocks alone yields no message item.
C32_TextRunsBecomeMessages ==
  openaiReq.translated =>
    LET conv == openaiReq.converted
    IN /\ \A i, j \in 1..Len(conv) : i < j => conv[i].src < conv[j].src
       /\ \A k \in 1..Len(claudeReq) :
            LET made == {i \in 1..Len(conv) : conv[i].src = k}
            IN IF claudeReq[k].type = "text"
               THEN /\ Cardinality(made)
                         = (IF RunStart(claudeReq, k) THEN 1 ELSE 0)
                    /\ \A i \in made :
                         conv[i] = Message(RoleAt(claudeReq, k),
                                           RunOf(claudeReq, k))
               ELSE /\ Cardinality(made) = 1
                    /\ \A i \in made :
                         conv[i].type = ItemTypeOf(claudeReq[k].type)

\* a run of two text blocks was converted, and a message of tool blocks alone
C32_Witness ==
  /\ openaiReq.translated
  /\ \E i \in ItemsOf(openaiReq.converted, "message") :
       Len(openaiReq.converted[i].texts) = 2
  /\ \E k \in 1..Len(claudeReq) :
       /\ claudeReq[k].first
       /\ claudeReq[k].type # "text"
       /\ k = Len(claudeReq) \/ claudeReq[k + 1].first

\* the manager as the streamed turns left it, before the request is translated
RECURSIVE ManagerOf(_)
ManagerOf(bindings) ==
  IF bindings = <<>> THEN EmptyManager
  ELSE LET n == Len(bindings)
       IN importManager(ManagerOf(SubSeq(bindings, 1, n - 1)),
                        MapSet(EmptyMap, bindings[n][1], bindings[n][2]))

\* C33: when a request holds a tool_use block and, after it, a tool_result
\* block with the same tool_use_id, and no binding for that tool_use_id
\* existed before the request, the function_call and the function_call_output
\* sent upstream carry the same call_id and the manager holds a binding for
\* that tool_use_id.
C33_UseAndResultShareCallId ==
  openaiReq.translated =>
    \A u, r \in 1..Len(claudeReq) :
      (/\ u < r
       /\ claudeReq[u].type = "tool_use"
       /\ claudeReq[r].type = "tool_result"
       /\ claudeReq[u].id = claudeReq[r].id
       /\ claudeReq[u].id \notin BoundToolUseIds(ManagerOf(streamed)))
      => /\ \E c, o \in 1..Len(openaiReq.input) :
              /\ openaiReq.input[c].type = "function_call"
              /\ openaiReq.input[c].src = u
              /\ openaiReq.input[o].type = "function_call_output"
              /\ openaiReq.input[o].src = r
              /\ openaiReq.input[c].call_id = openaiReq.input[o].call_id
         /\ claudeReq[u].id \in BoundToolUseIds(mgr)

\* C38: the lookup of the call_id of a tool_use_id gives a call_id only when
\* a binding was registered for exactly that tool_use_id.
C38_LookupIsExact ==
  \A id \in ToolUseIds :
    getOpenAICallId(mgr, id) # "" => id \in BoundToolUseIds(mgr)

\* the bindings of a manager, call_id by call_id
BindingsOf(m) == [mappings |-> m.mappings, reverseMapping |-> m.reverseMapping]

C34_EventNameIsPayloadType ==
  \A k \in FramePos :
    IF frames[k].type = "ping"
    THEN frames[k].event = "" /\ frames[k].data = ""
    ELSE frames[k].event = frames[k].type

\* the text written to the client in this session
TextFrames == SelectSeq(frames, LAMBDA f : f.info = "text_delta")

\* C35: upstream text is not written to the client more than once: the
\* text_delta fragments of a session, joined, are no longer than the output
\* text the upstream has streamed.
C35_TextWrittenOnce ==
  Len(JoinData(TextFrames)) <= Len(upstreamText)

StartsAt(i) == {k \in OfType("content_block_start") : frames[k].index = i}

\* C36: every content_block_delta of a session is written after the
\* content_block_start of its index and before any content_block_stop of
\* that index.
C36_DeltaInsideItsBlock ==
  \A k \in OfType("content_block_delta") :
    /\ \E j \in StartsAt(frames[k].index) : j < k
    /\ \A j \in StopsAt(frames[k].index) : k < j

\* a block was started, received one delta and was stopped by the last event
C36_Witness ==
  /\ nEvents = MaxEvents
  /\ ~state.streamCompleted
  /\ Cardinality(OfType("content_block_delta")) = 1
  /\ \E k \in OfType("content_block_delta") :
       /\ k + 1 \in StopsAt(frames[k].index)
       /\ k + 1 = Len(frames)

ToolStartsOf(id) ==
  {k \in OfType("content_block_start") :
     frames[k].info = "tool_use" /\ frames[k].id = id}

\* C37: however often response.output_item.added names a function_call
\* item, one content_block_start is written for its id and one index is
\* given to it: the id has at most one start frame, one metadata entry and
\* one block.
C37_OneBlockPerItem ==
  \A id \in ItemIds :
    /\ Cardinality(ToolStartsOf(id)) <= 1
    /\ Cardinality({p \in 1..Len(state.metadata) :
                      state.metadata[p].id = id}) <= 1
    /\ Cardinality({b \in 1..Len(state.blocks) :
                      state.blocks[b].id = id}) <= 1
    /\ ToolStartsOf(id) # {} =>
         \E p \in 1..Len(state.metadata) :
           /\ state.metadata[p].id = id
           /\ \A k \in ToolStartsOf(id) :
                frames[k].index = state.metadata[p].index

\* three events were handled and all they left is one started tool block
C37_Witness ==
  /\ nEvents = MaxEvents
  /\ ~state.streamCompleted
  /\ Len(state.blocks) = 1
  /\ \E id \in ItemIds : ToolStartsOf(id) = {Len(frames)}
  /\ ~state.metadata[1].completed
  /\ state.metadata[1].argsBuffer = ""

\* --------------------------------------------------------- after an eviction
\* C40: a request that begins when the store holds no record of its
\* conversation (none yet, or the sweep has evicted it) starts with no
\* previous response id and with no binding in the manager it translates
\* with.
C40_EvictionForgetsAll ==
  [][\A r \in RequestIds :
       (Begins(r) /\ ConvId \notin DOMAIN conversations)
         => /\ conversations'[ConvId].lastResponseId = ""
            /\ DOMAIN getMappingAsMap(mgr') = {}]_vars
====
